---- MODULE Spec2Model ----
(***************************************************************************)
(* A model of notebooks/n09_control.ipynb: one IPython session that        *)
(* executes the notebook's code cells in document order.  The state is the *)
(* interpreter's global namespace, the mutable objects the cells write to  *)
(* (linearizer.r, args['specified'], scene.states_trajectories), the text  *)
(* of the cells (a %load magic rewrites the text of its own cell) and a    *)
(* log of the library calls that were evaluated.                           *)
(*                                                                         *)
(* Arrays are sequences of rows of integers; a library routine whose       *)
(* result the notebook only passes on (linearize, solve_continuous_are)    *)
(* returns one of a few sample matrices of the shape its arguments fix.    *)
(***************************************************************************)
EXTENDS Integers, Sequences, FiniteSets, TLC

VARIABLES pc, ns, heap, loaded, reruns, calls, last

vars == <<pc, ns, heap, loaded, reruns, calls, last>>

----------------------------------------------------------------------------
(* Array algebra, as numpy computes it on 2-D arrays.                      *)

Rows(M) == Len(M)

Cols(M) == IF Len(M) = 0 THEN 0 ELSE Len(M[1])

Shape(M) == <<Rows(M), Cols(M)>>

RECURSIVE SumTo(_, _)
SumTo(f, k) == IF k = 0 THEN 0 ELSE f[k] + SumTo(f, k - 1)

\* numpy.zeros(n): a vector of n zeros.
Zeros(n) == [i \in 1..n |-> 0]

\* numpy.eye(n): the n-by-n identity.
Eye(n) == [i \in 1..n |-> [j \in 1..n |-> IF i = j THEN 1 ELSE 0]]

\* ndarray.T
Transpose(M) == [j \in 1..Cols(M) |-> [i \in 1..Rows(M) |-> M[i][j]]]

\* numpy.dot raises ValueError unless the inner dimensions agree.
DotDefined(X, Y) == Cols(X) = Rows(Y)

\* numpy.dot of two 2-D arrays.
Dot(X, Y) ==
    [i \in 1..Rows(X) |->
        [j \in 1..Cols(Y) |->
            SumTo([k \in 1..Cols(X) |-> X[i][k] * Y[k][j]], Cols(X))]]

\* numpy.dot of a 2-D array and a vector.
DotVec(X, v) ==
    [i \in 1..Rows(X) |-> SumTo([k \in 1..Cols(X) |-> X[i][k] * v[k]], Cols(X))]

\* unary minus on a vector.
Neg(v) == [i \in 1..Len(v) |-> 0 - v[i]]

\* The matrix M without row i and column j.
Minor(M, i, j) ==
    [r \in 1..(Rows(M) - 1) |->
        [c \in 1..(Cols(M) - 1) |->
            M[IF r < i THEN r ELSE r + 1][IF c < j THEN c ELSE c + 1]]]

RECURSIVE Det(_)
Det(M) ==
    IF Rows(M) = 0 THEN 1
    ELSE SumTo([j \in 1..Cols(M) |->
                   (IF j % 2 = 1 THEN 1 ELSE 0 - 1) * M[1][j] * Det(Minor(M, 1, j))],
               Cols(M))

Sign(i, j) == IF (i + j) % 2 = 0 THEN 1 ELSE 0 - 1

\* numpy.linalg.inv raises LinAlgError on a non-square or singular matrix.
InvDefined(M) == Rows(M) = Cols(M) /\ Det(M) # 0

\* numpy.linalg.inv, by the adjugate; exact on the integer matrices of
\* determinant 1 or -1, which is what the notebook inverts (R = eye(3)).
Inv(M) ==
    LET d == Det(M)
    IN  [i \in 1..Rows(M) |->
            [j \in 1..Cols(M) |-> (Sign(i, j) * Det(Minor(M, j, i))) \div d]]

----------------------------------------------------------------------------
(* Python built-ins.                                                       *)

Min(a, b) == IF a < b THEN a ELSE b

\* zip(keys, vals): pairs up to the shorter argument.
Zip(keys, vals) == [i \in 1..Min(Len(keys), Len(vals)) |-> <<keys[i], vals[i]>>]

\* dict(pairs): one entry per distinct key, the last pair of a key wins.
Dict(pairs) ==
    [k \in {pairs[i][1] : i \in 1..Len(pairs)} |->
        LET idx == {i \in 1..Len(pairs) : pairs[i][1] = k}
            top == CHOOSE i \in idx : \A j \in idx : j <= i
        IN  pairs[top][2]]

Range(s) == {s[i] : i \in 1..Len(s)}

----------------------------------------------------------------------------
(* Bounds.                                                                 *)

\* How many sample results each delegated library routine may return.
NumSamples == 2

----------------------------------------------------------------------------
(* What `from solution.visualization import *` binds: the results of the   *)
(* earlier notebooks.  The notebook names them, their definitions live in  *)
(* the solution package.                                                   *)

ImportedCoordinates == <<"theta1", "theta2", "theta3">>

ImportedSpeeds == <<"omega1", "omega2", "omega3">>

ImportedSpecified == <<"T_a", "T_k", "T_h">>

ImportedConstants ==
    <<"l_L", "d_L", "m_L", "I_Lz", "l_U", "d_U", "m_U", "I_Uz",
      "d_T", "m_T", "I_Tz", "g">>

ImportedNumericalConstants == [i \in 1..Len(ImportedConstants) |-> i]

\* The initial state of the earlier simulation: the three angles off upright.
ImportedX0 == <<2, 2, 2, 0, 0, 0>>

Fn(name) == [kind |-> "function", name |-> name]

NoValue == [kind |-> "none"]

\* The trajectory the simulation notebook integrated, with zero joint torques.
UncontrolledTrajectory ==
    [kind |-> "trajectory", specified |-> "numerical_specified",
     u0 |-> Zeros(Len(ImportedSpecified))]

ImportedNamespace ==
    [coordinates |-> [kind |-> "list", items |-> ImportedCoordinates],
     speeds |-> [kind |-> "list", items |-> ImportedSpeeds],
     specified |-> [kind |-> "list", items |-> ImportedSpecified],
     constants |-> [kind |-> "list", items |-> ImportedConstants],
     numerical_constants |-> [kind |-> "ndarray", v |-> ImportedNumericalConstants],
     kane |-> [kind |-> "KanesMethod", q |-> ImportedCoordinates,
               u |-> ImportedSpeeds],
     right_hand_side |-> Fn("right_hand_side"),
     odeint |-> Fn("odeint"),
     x0 |-> [kind |-> "ndarray", v |-> ImportedX0],
     t |-> [kind |-> "ndarray", v |-> <<0, 1, 2>>],
     args |-> [kind |-> "dict_object", id |-> "args"],
     y |-> UncontrolledTrajectory,
     scene |-> [kind |-> "Scene", id |-> "scene"]]

\* KanesMethod.to_linearizer orders the inputs r alphabetically.
AlphabeticalInputs == <<"T_a", "T_h", "T_k">>

\* The objects the import creates that later cells write to.
ImportedHeap(h) ==
    [h EXCEPT !.args_specified =
                  [kind |-> "ndarray", v |-> Zeros(Len(ImportedSpecified))],
              !.scene_traj = UncontrolledTrajectory]

----------------------------------------------------------------------------
(* Results of the delegated library routines.                              *)

IndexOf(seq, x) == CHOOSE i \in 1..Len(seq) : seq[i] = x

\* Linearizer.linearize(A_and_B=True): A is n-by-n for the n = len(q) + len(u)
\* states, kinematic rows on top; sample k of the dynamic rows.
LinearizedA(q, u, k) ==
    LET nq == Len(q)
        n == Len(q) + Len(u)
    IN  [i \in 1..n |->
            [j \in 1..n |->
                IF i <= nq THEN (IF j = nq + i THEN 1 ELSE 0)
                ELSE IF j <= nq THEN k + (i - nq) - j ELSE 0]]

\* B is n-by-len(r), one column per input, in the order of linearizer.r.
LinearizedB(q, u, r, k) ==
    LET nq == Len(q)
        n == Len(q) + Len(u)
    IN  [i \in 1..n |->
            [j \in 1..Len(r) |->
                IF i <= nq THEN 0
                ELSE LET c == IndexOf(ImportedSpecified, r[j])
                     IN  IF i - nq = c THEN k + 1 ELSE c - (i - nq)]]

\* The symbols an operating point leaves unsubstituted.
FreeSymbols(q, u, op_point) ==
    (Range(q) \cup Range(u) \cup Range(ImportedConstants))
        \ UNION {DOMAIN op_point[i] : i \in 1..Len(op_point)}

\* scipy.linalg.solve_continuous_are raises ValueError unless a is square, b has
\* a's rows, q has a's shape, r is square of b's columns and invertible.
AreDefined(a, b, q, r) ==
    /\ Rows(a) = Cols(a)
    /\ Rows(b) = Rows(a)
    /\ Shape(q) = Shape(a)
    /\ Shape(r) = <<Cols(b), Cols(b)>>
    /\ Det(r) # 0

\* Sample k of the symmetric n-by-n solution the solver returns.
AreSolution(n, k) ==
    [i \in 1..n |-> [j \in 1..n |-> IF i = j THEN k + i ELSE 1]]

----------------------------------------------------------------------------
(* The expressions the notebook's cells evaluate.                          *)

\* The speeds left out: zeros(len(coordinates)).
equilibrium_point_coordinates_only(coordinates, speeds) == Zeros(Len(coordinates))

\* zeros(len(coordinates + speeds))
equilibrium_point(coordinates, speeds) == Zeros(Len(coordinates \o speeds))

\* dict(zip(coordinates + speeds, equilibrium_point))
equilibrium_dict(coordinates, speeds, point) ==
    Dict(Zip(coordinates \o speeds, point))

\* A weighting matrix one state too large.
QDimOffByOne == 6 + 1

\* Q = eye(6)
QDim == 6

\* R = eye(3)
RDim == 3

\* B written where B.T is meant.
BTForgotten(B) == B

\* B.T
BT(B) == Transpose(B)

\* The gain without the Riccati solution: dot(inv(R), B.T).
GainKWithoutS(R, B, S) == Dot(Inv(R), BT(B))

\* dot(dot(inv(R), B.T), S)
GainK(R, B, S) == Dot(Dot(Inv(R), BT(B)), S)

\* The shapes numpy needs for dot(dot(inv(R), B.T), S) not to raise.
GainDefined(R, B, S) ==
    /\ InvDefined(R)
    /\ DotDefined(R, BT(B))
    /\ DotDefined(BT(B), S)

----------------------------------------------------------------------------
(* The code cells, in document order.  A cell is the sequence of its       *)
(* statements; a statement names its operation and the global names it     *)
(* looks up, in the order Python evaluates them.                           *)

Stmt(op, reads) == [op |-> op, reads |-> reads, names |-> {}, file |-> ""]

FromImport(names) ==
    [op |-> "from_import", reads |-> <<>>, names |-> names, file |-> ""]

Load(file) == [op |-> "load", reads |-> <<>>, names |-> {}, file |-> file]

CellBringInResults == <<Stmt("nop", <<>>), Stmt("import_star", <<>>)>>

CellNumpyImports ==
    <<FromImport({"array", "zeros", "eye", "asarray", "dot", "rad2deg"}),
      FromImport({"inv"})>>

CellMatplotlibInline == <<Stmt("nop", <<>>)>>

CellPyplotImports ==
    <<FromImport({"plot", "xlabel", "ylabel", "legend", "rcParams"})>>

CellFigsize == <<Stmt("set_figsize", <<"rcParams">>)>>

CellSympyImports ==
    <<FromImport({"simplify", "Matrix", "matrix2numpy"}),
      FromImport({"init_vprinting", "vlatex"})>>

CellInitVprinting == <<Stmt("expr", <<"init_vprinting">>)>>

CellPrecision == <<Stmt("nop", <<>>)>>

CellEquilibriumPoint ==
    <<Stmt("assign_equilibrium_point", <<"zeros", "coordinates", "speeds">>),
      Stmt("expr", <<"equilibrium_point">>)>>

CellEquilibriumDict ==
    <<Stmt("assign_equilibrium_dict",
           <<"coordinates", "speeds", "equilibrium_point">>),
      Stmt("expr", <<"equilibrium_dict">>)>>

CellLoadParameterDict == <<Load("n09_control_parameter-dict.py")>>

CellToLinearizer == <<Stmt("assign_linearizer", <<"kane">>)>>

CellCompareR == <<Stmt("expr", <<"linearizer", "Matrix", "specified">>)>>

CellSetR == <<Stmt("set_linearizer_r", <<"Matrix", "specified", "linearizer">>)>>

CellHelpLinearize == <<Stmt("expr", <<"linearizer">>)>>

CellLinearize ==
    <<Stmt("assign_A_B", <<"linearizer", "equilibrium_dict", "parameter_dict">>)>>

CellMatrix2Numpy ==
    <<Stmt("convert_A", <<"matrix2numpy", "A">>),
      Stmt("convert_B", <<"matrix2numpy", "B">>)>>

CellShowA == <<Stmt("expr", <<"A">>)>>

CellShowB == <<Stmt("expr", <<"B">>)>>

CellImportControllable == <<FromImport({"controllable"})>>

CellControllable == <<Stmt("call_controllable", <<"controllable", "A", "B">>)>>

CellImportSolve == <<FromImport({"solve_continuous_are"})>>

CellQ == <<Stmt("assign_Q", <<"eye">>), Stmt("expr", <<"Q">>)>>

CellR == <<Stmt("assign_R", <<"eye">>), Stmt("expr", <<"R">>)>>

CellGain ==
    <<Stmt("assign_S", <<"solve_continuous_are", "A", "B", "Q", "R">>),
      Stmt("assign_K", <<"dot", "inv", "R", "B", "S">>),
      Stmt("expr", <<"K">>)>>

CellHelpRhs == <<Stmt("expr", <<"right_hand_side">>)>>

CellControllerStub == <<Stmt("def_controller_stub", <<>>)>>

CellLoadController == <<Load("n09_control_controller-function.py")>>

CellEmptyExercise == <<>>

CellLoadIntegrate == <<Load("n09_control_integrate-eom.py")>>

CellPlotAnglesStub == <<Stmt("nop", <<>>)>>

CellLoadPlotAngles == <<Load("n09_control_plot-angles.py")>>

CellPlotVelocitiesStub == <<Stmt("nop", <<>>)>>

CellLoadPlotVelocities == <<Load("n09_control_plot-velocities.py")>>

CellSetTrajectories == <<Stmt("set_states_trajectories", <<"y", "scene">>)>>

CellDisplay == <<Stmt("call_display", <<"scene">>)>>

\* The controllability check moved below the gain computation.
CellsControllableAfterGain ==
    <<CellBringInResults, CellNumpyImports, CellMatplotlibInline,
      CellPyplotImports, CellFigsize, CellSympyImports, CellInitVprinting,
      CellPrecision, CellEquilibriumPoint, CellEquilibriumDict,
      CellLoadParameterDict, CellToLinearizer, CellCompareR, CellSetR,
      CellHelpLinearize, CellLinearize, CellMatrix2Numpy, CellShowA, CellShowB,
      CellImportControllable, CellImportSolve, CellQ, CellR,
      CellGain, CellControllable, CellHelpRhs, CellControllerStub,
      CellLoadController, CellEmptyExercise, CellLoadIntegrate,
      CellPlotAnglesStub, CellLoadPlotAngles, CellPlotVelocitiesStub,
      CellLoadPlotVelocities, CellSetTrajectories, CellDisplay>>

Cells ==
    <<CellBringInResults, CellNumpyImports, CellMatplotlibInline,
      CellPyplotImports, CellFigsize, CellSympyImports, CellInitVprinting,
      CellPrecision, CellEquilibriumPoint, CellEquilibriumDict,
      CellLoadParameterDict, CellToLinearizer, CellCompareR, CellSetR,
      CellHelpLinearize, CellLinearize, CellMatrix2Numpy, CellShowA, CellShowB,
      CellImportControllable, CellControllable, CellImportSolve, CellQ, CellR,
      CellGain, CellHelpRhs, CellControllerStub, CellLoadController,
      CellEmptyExercise, CellLoadIntegrate, CellPlotAnglesStub,
      CellLoadPlotAngles, CellPlotVelocitiesStub, CellLoadPlotVelocities,
      CellSetTrajectories, CellDisplay>>

\* The text of the exercise solutions that the %load cells bring in: what each
\* exercise asks for.
ExerciseSolution(file) ==
    CASE file = "n09_control_parameter-dict.py" ->
            <<Stmt("assign_parameter_dict", <<"constants", "numerical_constants">>)>>
      [] file = "n09_control_controller-function.py" ->
            <<Stmt("def_controller", <<>>)>>
      [] file = "n09_control_integrate-eom.py" ->
            <<Stmt("set_args_specified", <<"controller", "args">>),
              Stmt("assign_y", <<"odeint", "right_hand_side", "x0", "t", "args">>)>>
      [] file = "n09_control_plot-angles.py" ->
            <<Stmt("expr", <<"plot", "t", "rad2deg", "y">>),
              Stmt("expr", <<"xlabel">>), Stmt("expr", <<"ylabel">>),
              Stmt("expr", <<"legend">>)>>
      [] file = "n09_control_plot-velocities.py" ->
            <<Stmt("expr", <<"plot", "t", "rad2deg", "y">>),
              Stmt("expr", <<"xlabel">>), Stmt("expr", <<"ylabel">>),
              Stmt("expr", <<"legend">>)>>

----------------------------------------------------------------------------
(* The interpreter: one statement, then one cell.                          *)

NumCells == Len(Cells)

Raise(e, type, name) == [e EXCEPT !.exc = type, !.name = name]

Bind(e, name, value) == [e EXCEPT !.ns = (name :> value) @@ e.ns]

Log(e, fn, args, ret) ==
    [e EXCEPT !.calls = Append(e.calls, [fn |-> fn, args |-> args, ret |-> ret])]

Array(m) == [kind |-> "ndarray", m |-> m, free |-> {}]

\* A call f(*args) of a function a def statement made, with globals g.
CallFunction(f, args, g) ==
    IF Len(f.params) # Len(args)
    THEN [exc |-> "TypeError", name |-> f.name, value |-> NoValue]
    ELSE IF f.body = "return"
    THEN [exc |-> "", name |-> "", value |-> NoValue]
    ELSE IF "dot" \notin DOMAIN g
    THEN [exc |-> "NameError", name |-> "dot", value |-> NoValue]
    ELSE IF "K" \notin DOMAIN g
    THEN [exc |-> "NameError", name |-> "K", value |-> NoValue]
    ELSE IF Cols(g["K"].m) # Len(args[1].v)
    THEN [exc |-> "ValueError", name |-> "dot", value |-> NoValue]
    ELSE [exc |-> "", name |-> "",
          value |-> [kind |-> "ndarray", v |-> Neg(DotVec(g["K"].m, args[1].v))]]

\* odeint(right_hand_side, x0, t, args=(args,)): right_hand_side evaluates
\* args['specified'] at the state when it is callable, and needs one value per
\* specified input from it.
Odeint(e) ==
    LET f == e.heap.args_specified
        r == CallFunction(f, <<e.ns["x0"], e.ns["t"]>>, e.ns)
    IN  IF f.kind # "function"
        THEN Bind(e, "y", [kind |-> "trajectory",
                           specified |-> "numerical_specified", u0 |-> f.v])
        ELSE IF r.exc # "" THEN Raise(e, r.exc, r.name)
        ELSE IF r.value.kind = "none" THEN Raise(e, "TypeError", "right_hand_side")
        ELSE IF Len(r.value.v) # Len(e.ns["specified"].items)
        THEN Raise(e, "ValueError", "right_hand_side")
        ELSE Bind(e, "y", [kind |-> "trajectory", specified |-> "controller",
                           u0 |-> r.value.v])

\* matrix2numpy(M, dtype=float) of the global `name`.
Matrix2Numpy(e, name) ==
    LET M == e.ns[name]
    IN  IF M.kind # "Matrix" THEN Raise(e, "AttributeError", name)
        ELSE IF M.free # {} THEN Raise(e, "TypeError", name)
        ELSE Log(Bind(e, name, Array(M.m)), "matrix2numpy", <<M>>, Array(M.m))

Linearize(e, k) ==
    LET lin == e.ns["linearizer"]
        r == e.heap.linearizer_r
        op_point == <<e.ns["equilibrium_dict"].d, e.ns["parameter_dict"].d>>
        free == FreeSymbols(lin.q, lin.u, op_point)
        A == [kind |-> "Matrix", m |-> LinearizedA(lin.q, lin.u, k), free |-> free]
        B == [kind |-> "Matrix", m |-> LinearizedB(lin.q, lin.u, r, k), free |-> free]
    IN  Log(Bind(Bind(e, "A", A), "B", B), "linearize", <<>>, NoValue)

SolveContinuousAre(e, k) ==
    LET A == e.ns["A"]
        B == e.ns["B"]
        Q == e.ns["Q"]
        R == e.ns["R"]
        S == Array(AreSolution(Rows(A.m), k))
    IN  IF A.kind # "ndarray" \/ B.kind # "ndarray"
        THEN Raise(e, "TypeError", "solve_continuous_are")
        ELSE IF ~AreDefined(A.m, B.m, Q.m, R.m)
        THEN Raise(e, "ValueError", "solve_continuous_are")
        ELSE Log(Bind(e, "S", S), "solve_continuous_are", <<A, B, Q, R>>, S)

Gain(e) ==
    LET R == e.ns["R"].m
        B == e.ns["B"].m
        S == e.ns["S"].m
    IN  IF ~InvDefined(R) THEN Raise(e, "LinAlgError", "inv")
        ELSE IF ~GainDefined(R, B, S) THEN Raise(e, "ValueError", "dot")
        ELSE Bind(e, "K", Array(GainK(R, B, S)))

Apply(st, e, lib) ==
    CASE st.op \in {"nop", "expr"} -> e
      [] st.op = "import_star" ->
            [e EXCEPT !.ns = ImportedNamespace @@ e.ns,
                      !.heap = ImportedHeap(e.heap)]
      [] st.op = "from_import" ->
            [e EXCEPT !.ns = [n \in st.names |-> Fn(n)] @@ e.ns]
      [] st.op = "set_figsize" -> [e EXCEPT !.heap.figsize = <<14, 8>>]
      [] st.op = "assign_equilibrium_point" ->
            Bind(e, "equilibrium_point",
                 [kind |-> "ndarray",
                  v |-> equilibrium_point(e.ns["coordinates"].items,
                                          e.ns["speeds"].items)])
      [] st.op = "assign_equilibrium_dict" ->
            Bind(e, "equilibrium_dict",
                 [kind |-> "dict",
                  d |-> equilibrium_dict(e.ns["coordinates"].items,
                                         e.ns["speeds"].items,
                                         e.ns["equilibrium_point"].v)])
      [] st.op = "assign_parameter_dict" ->
            Bind(e, "parameter_dict",
                 [kind |-> "dict",
                  d |-> Dict(Zip(e.ns["constants"].items,
                                 e.ns["numerical_constants"].v))])
      [] st.op = "assign_linearizer" ->
            [Bind(e, "linearizer",
                  [kind |-> "Linearizer", q |-> e.ns["kane"].q, u |-> e.ns["kane"].u])
                EXCEPT !.heap.linearizer_r = AlphabeticalInputs]
      [] st.op = "set_linearizer_r" ->
            [e EXCEPT !.heap.linearizer_r = e.ns["specified"].items]
      [] st.op = "assign_A_B" -> Linearize(e, lib.lin)
      [] st.op = "convert_A" -> Matrix2Numpy(e, "A")
      [] st.op = "convert_B" -> Matrix2Numpy(e, "B")
      [] st.op = "call_controllable" ->
            Log(e, "controllable", <<e.ns["A"], e.ns["B"]>>, NoValue)
      [] st.op = "assign_Q" -> Bind(e, "Q", Array(Eye(QDim)))
      [] st.op = "assign_R" -> Bind(e, "R", Array(Eye(RDim)))
      [] st.op = "assign_S" -> SolveContinuousAre(e, lib.are)
      [] st.op = "assign_K" -> Gain(e)
      [] st.op = "def_controller_stub" ->
            Bind(e, "controller",
                 [kind |-> "function", name |-> "controller", params |-> <<>>,
                  body |-> "return"])
      [] st.op = "def_controller" ->
            Bind(e, "controller",
                 [kind |-> "function", name |-> "controller",
                  params |-> <<"x", "t">>, body |-> "return -dot(K, x)"])
      [] st.op = "set_args_specified" ->
            [e EXCEPT !.heap.args_specified = e.ns["controller"]]
      [] st.op = "assign_y" -> Odeint(e)
      [] st.op = "set_states_trajectories" ->
            [e EXCEPT !.heap.scene_traj = e.ns["y"]]
      [] st.op = "call_display" ->
            Log(e, "display_ipython", <<e.heap.scene_traj>>, NoValue)

\* A statement: the first unbound name it looks up raises NameError.
ExecStmt(st, e, lib) ==
    LET unbound == {i \in 1..Len(st.reads) : st.reads[i] \notin DOMAIN e.ns}
    IN  IF unbound # {}
        THEN Raise(e, "NameError",
                   st.reads[CHOOSE i \in unbound : \A j \in unbound : i <= j])
        ELSE Apply(st, e, lib)

\* A cell: its statements in order, up to the first one that raises; no cell
\* catches an exception.
RECURSIVE RunStmts(_, _, _)
RunStmts(stmts, e, lib) ==
    IF stmts = <<>> THEN e
    ELSE LET e1 == ExecStmt(Head(stmts), e, lib)
         IN  IF e1.exc # "" THEN e1
             ELSE RunStmts(Tail(stmts), [e1 EXCEPT !.completed = @ + 1], lib)

----------------------------------------------------------------------------
(* The session.                                                            *)

LibOutcomes == [lin : 1..NumSamples, are : 1..NumSamples]

\* A cell whose text is still the %load magic.
IsLoadMagic(i) ==
    /\ i \notin loaded
    /\ Cells[i] # <<>>
    /\ Cells[i][1].op = "load"

\* The text of cell i now: %load has replaced the text of a loaded cell by a
\* comment line and the file's text.
CellText(i) ==
    IF i \in loaded
    THEN <<Stmt("nop", <<>>)>> \o ExerciseSolution(Cells[i][1].file)
    ELSE Cells[i]

Init ==
    /\ pc = 1
    /\ ns = <<>>
    /\ heap = [linearizer_r |-> <<>>, args_specified |-> NoValue,
               scene_traj |-> NoValue, figsize |-> <<>>]
    /\ loaded = {}
    /\ reruns = {}
    /\ calls = <<>>
    /\ last = [cell |-> 0, exc |-> "", name |-> "", completed |-> 0]

Execute(i, lib) ==
    LET e == RunStmts(CellText(i),
                      [ns |-> ns, heap |-> heap, calls |-> calls, exc |-> "",
                       name |-> "", completed |-> 0],
                      lib)
    IN  /\ ns' = e.ns
        /\ heap' = e.heap
        /\ calls' = e.calls
        /\ last' = [cell |-> i, exc |-> e.exc, name |-> e.name,
                    completed |-> e.completed]

\* Run the cell at the cursor and move to the next one.
RunCell ==
    /\ pc <= NumCells
    /\ ~IsLoadMagic(pc)
    /\ \E lib \in LibOutcomes : Execute(pc, lib)
    /\ pc' = pc + 1
    /\ UNCHANGED <<loaded, reruns>>

\* Run a %load cell: the magic puts the file's text into the cell and runs
\* none of it.
RunLoadMagic ==
    /\ pc <= NumCells
    /\ IsLoadMagic(pc)
    /\ loaded' = loaded \cup {pc}
    /\ last' = [cell |-> pc, exc |-> "", name |-> "", completed |-> 1]
    /\ pc' = pc + 1
    /\ UNCHANGED <<ns, heap, reruns, calls>>

\* Go back to the cell that was just loaded and run it a second time, which
\* runs the text the magic put there.
RunLoadedCell ==
    /\ pc > 1
    /\ pc - 1 \in loaded
    /\ pc - 1 \notin reruns
    /\ last.cell = pc - 1
    /\ \E lib \in LibOutcomes : Execute(pc - 1, lib)
    /\ reruns' = reruns \cup {pc - 1}
    /\ UNCHANGED <<pc, loaded>>

Next == RunCell \/ RunLoadMagic \/ RunLoadedCell

Spec == Init /\ [][Next]_vars

----------------------------------------------------------------------------
(* Properties.                                                             *)

\* The position of a cell among the code cells.
CellIndex(c) == CHOOSE i \in 1..Len(Cells) : Cells[i] = c

Bound(name) == name \in DOMAIN ns

\* Every cell so far was executed once: no loaded cell was run a second time.
OnceEach == reruns = {}

NumStates == Len(ImportedCoordinates \o ImportedSpeeds)

NumInputs == Len(ImportedSpecified)

\* C2: the function named controller takes the state and the time and returns
\* the joint torques -K x, one per specified input, never None.
C2_ControllerReturnsTorques ==
    (Bound("controller") /\ Bound("x0") /\ Bound("t")) =>
        LET r == CallFunction(ns["controller"], <<ns["x0"], ns["t"]>>, ns)
            K == ns["K"].m
            x == ns["x0"].v
        IN  /\ r.exc # "TypeError"
            /\ r.exc = "" => /\ r.value.kind = "ndarray"
                             /\ Len(r.value.v) = NumInputs
            /\ Bound("K") =>
                  /\ r.exc = ""
                  /\ \A i \in 1..NumInputs :
                        r.value.v[i] =
                            0 - SumTo([k \in 1..Len(x) |-> K[i][k] * x[k]], Len(x))

\* C3: in a fresh session with every cell executed once, in document order, no
\* cell reads a global name that is not yet bound.
C3_NoUnboundNameRead == OnceEach => last.exc # "NameError"

\* C4: when the cell `scene.states_trajectories = y` executes, y is the
\* trajectory integrated with the controller in place.
C4_AnimationIsControlled ==
    (last.cell = CellIndex(CellSetTrajectories) /\ last.exc = "") =>
        heap.scene_traj.specified = "controller"

C7_UprightOperatingPoint ==
    /\ Bound("equilibrium_point") =>
          /\ Len(ns["equilibrium_point"].v) =
                 Len(ns["coordinates"].items) + Len(ns["speeds"].items)
          /\ \A i \in 1..Len(ns["equilibrium_point"].v) :
                 ns["equilibrium_point"].v[i] = 0
    /\ Bound("equilibrium_dict") =>
          /\ DOMAIN ns["equilibrium_dict"].d =
                 Range(ns["coordinates"].items) \cup Range(ns["speeds"].items)
          /\ \A k \in DOMAIN ns["equilibrium_dict"].d :
                 ns["equilibrium_dict"].d[k] = 0

C7_OperatingPointBuilt ==
    /\ Bound("equilibrium_point")
    /\ Bound("equilibrium_dict")
    /\ Cardinality(DOMAIN ns["equilibrium_dict"].d) = NumStates

\* C8: K = R^-1 B^T S (so R K = B^T S, and K = B^T S for the notebook's R = I),
\* where S is what solve_continuous_are(A, B, Q, R) returned for the A, B, Q, R
\* in scope, in that order.
C8_GainFromRiccatiSolution ==
    Bound("K") =>
        LET K == ns["K"].m
            R == ns["R"].m
            B == ns["B"].m
            S == ns["S"].m
            BtS(i, j) == SumTo([k \in 1..Rows(B) |-> B[k][i] * S[k][j]], Rows(B))
            RK(i, j) == SumTo([k \in 1..Cols(R) |-> R[i][k] * K[k][j]], Cols(R))
            solves == {c \in 1..Len(calls) : calls[c].fn = "solve_continuous_are"}
        IN  /\ Shape(K) = <<Cols(B), Cols(S)>>
            /\ \A i \in 1..Rows(K) : \A j \in 1..Cols(K) :
                  /\ RK(i, j) = BtS(i, j)
                  /\ K[i][j] = BtS(i, j)
            /\ \E c \in solves :
                  /\ \A d \in solves : d <= c
                  /\ calls[c].args = <<ns["A"], ns["B"], ns["Q"], ns["R"]>>
                  /\ calls[c].ret = ns["S"]

C8_GainBound ==
    /\ Bound("K")
    /\ Bound("S")
    /\ \E i \in 1..Rows(ns["K"].m) : \E j \in 1..Cols(ns["K"].m) :
          ns["K"].m[i][j] # 0

====
